---- MODULE Spec2Model ----
(***************************************************************************)
(* Model of src/main.py, "The Multimodal Storyteller": a Streamlit script  *)
(* that is re-executed top to bottom on every user interaction.  A step of *)
(* the model is one interaction: the script run it triggers, together with *)
(* the st.rerun() pass that run ends with, if any.  The state is           *)
(* st.session_state, the two API keys read at start-up, and the browser's  *)
(* window.speechSynthesis object the narration components drive.           *)
(***************************************************************************)
EXTENDS Integers, Sequences, FiniteSets, TLC

VARIABLES
    authenticated,      \* st.session_state.authenticated
    user,               \* st.session_state.user ("" while the key is not set)
    rerun_trigger,      \* st.session_state.rerun_trigger
    app_stage,          \* st.session_state.app_stage (NoKey while not in session_state)
    world_bible,        \* st.session_state.world_bible
    story_chapters,     \* st.session_state.story_chapters
    latest_choices,     \* st.session_state.latest_choices
    GOOGLE_API_KEY,     \* TRUE iff load_api_keys() found a text-generation key
    STABILITY_API_KEY,  \* TRUE iff load_api_keys() found an image key
    synthQueue,         \* utterances queued in window.speechSynthesis
    synthPaused,        \* window.speechSynthesis.paused
    last                \* history: the interaction that produced this state

vars == <<authenticated, user, rerun_trigger, app_stage, world_bible, story_chapters,
          latest_choices, GOOGLE_API_KEY, STABILITY_API_KEY,
          synthQueue, synthPaused, last>>

storyVars == <<app_stage, world_bible, story_chapters, latest_choices>>
authVars  == <<authenticated, user, rerun_trigger>>
envVars   == <<GOOGLE_API_KEY, STABILITY_API_KEY>>
synthVars == <<synthQueue, synthPaused>>

(***************************************************************************)
(* Bounds of the model.                                                    *)
(***************************************************************************)
MaxChapters == 3     \* a submission is explored only while the list fits

(***************************************************************************)
(* Values.                                                                 *)
(***************************************************************************)
NoKey   == "<no key>"       \* the key is not in st.session_state
None    == "<None>"         \* Python None, where a text is expected
NoImage == [present |-> FALSE, of |-> ""]          \* Python None, as an image
PILImage(prompt) == [present |-> TRUE, of |-> prompt]  \* Image.open(...) of the payload

Range(s) == {s[i] : i \in 1..Len(s)}

\* inputs the forms and the backends can deliver
Usernames     == {"alice", "eve"}
Passwords     == {"pa", "pc"}
AuthSources   == {"secrets", "env", "none"}   \* where check_login finds the tables
OpeningInputs == {"", "o1"}
WorldBibles   == {"wb1", "wb2"}
NarrativeTexts == {"t|1"}               \* "|" stands for a line break
ChoiceLists   == {<<>>, <<"A", "B">>, <<"C">>}
ImagePrompts  == {"d1"}
ChoiceIndexes == UNION {1..Len(cs) : cs \in ChoiceLists}   \* positions of the radio
JsonKeys      == {"narrative_chapter", "next_choices", "image_prompt"}

\* hashlib.sha256(password.encode()).hexdigest()
sha256(password) == <<"sha256", password>>

\* st.secrets["auth"] and the .env tables; "alice" is listed twice in the
\* second one, and list.index finds her first entry
SecretsUsernames == <<"alice", "bob">>
SecretsPasswords == <<sha256("pa"), sha256("pb")>>
EnvUsernames     == <<"alice", "bob", "alice">>
EnvPasswords     == <<sha256("pc"), sha256("pb"), sha256("pa")>>

\* list.index(x): the first position holding x
ListIndex(list, x) == CHOOSE i \in 1..Len(list) : list[i] = x /\ \A j \in 1..(i-1) : list[j] # x

\* the comparison of lines 40-44 on the tables found
CredentialsMatch(usernames, passwords, username, password) ==
    IF username \in Range(usernames)
    THEN sha256(password) = passwords[ListIndex(usernames, username)]
    ELSE FALSE

check_login(source, username, password) ==
    CASE source = "secrets" -> CredentialsMatch(SecretsUsernames, SecretsPasswords, username, password)
      [] source = "env"     -> CredentialsMatch(EnvUsernames, EnvPasswords, username, password)
      [] OTHER              -> FALSE     \* neither found, or malformed: st.error, return False

\* mutant: the st.stop() of line 69 is missing
PassesLoginGate_Open(auth) == TRUE

\* lines 54-69 and 92-96: the script reaches the story UI only in an
\* authenticated session with a text-generation key
PassesLoginGate(auth) == auth
PassesKeyCheck(googleKey) == googleKey
ReachesStoryUI == PassesLoginGate(authenticated) /\ PassesKeyCheck(GOOGLE_API_KEY)

\* lines 216-220, on the four keys as the run finds them
FreshStory == <<"world_forge", None, <<>>, <<>>>>
InitStoryKeys(stage, wb, chapters, choices) ==
    IF stage = NoKey THEN FreshStory ELSE <<stage, wb, chapters, choices>>

(***************************************************************************)
(* The narrative backend (lines 118-142).  A reply is what                 *)
(* model.generate_content does: it raises, or it returns text that         *)
(* json.loads rejects, or text that parses to an object holding `keys`.    *)
(***************************************************************************)
BlankReply == [kind |-> "not_called", keys |-> {}, narrative_chapter |-> "",
               next_choices |-> <<>>, image_prompt |-> ""]
JsonReply(keys, text, choices, prompt) ==
    [kind |-> "json", keys |-> keys,
     narrative_chapter |-> IF "narrative_chapter" \in keys THEN text ELSE "",
     next_choices      |-> IF "next_choices" \in keys THEN choices ELSE <<>>,
     image_prompt      |-> IF "image_prompt" \in keys THEN prompt ELSE ""]
CompleteReplies ==
    {JsonReply(JsonKeys, t, cs, d) : t \in NarrativeTexts, cs \in ChoiceLists, d \in ImagePrompts}
PartialReplies ==
    {JsonReply(JsonKeys \ {k}, "t|1", <<"A", "B">>, "d1") : k \in JsonKeys}
        \cup {JsonReply({}, "", <<>>, "")}
NarrativeReplies ==
    {[BlankReply EXCEPT !.kind = "backend_error"], [BlankReply EXCEPT !.kind = "garbled"]}
        \cup CompleteReplies \cup PartialReplies

\* lines 134-142: the value returned, or the exception that leaves the function.
\* When generate_content raises, `response` is unbound and line 141 raises
\* out of the except block; when json.loads raises, None is returned.
generate_story_chapter(reply) ==
    CASE reply.kind = "backend_error" -> [raised |-> TRUE, data |-> BlankReply]
      [] reply.kind = "garbled"       -> [raised |-> FALSE, data |-> BlankReply]
      [] OTHER                        -> [raised |-> FALSE, data |-> reply]

\* `if ai_response:` - None and the empty object are falsy
Truthy(data) == data.kind = "json" /\ data.keys # {}
\* ai_response[key] raises KeyError when the key is missing
HasKey(data, key) == key \in data.keys

(***************************************************************************)
(* The illustration backend (lines 145-191).                               *)
(***************************************************************************)
ImageOutcomes == {"ok", "http_error", "missing_artifacts", "undecodable_payload",
                  "connection_error"}

\* mutant: the except clauses of lines 173-191 are missing
generate_image_stability_Raises(keyPresent, prompt, outcome) ==
    CASE ~keyPresent     -> [raised |-> FALSE, image |-> NoImage, posted |-> FALSE]
      [] outcome = "ok"  -> [raised |-> FALSE, image |-> PILImage(prompt), posted |-> TRUE]
      [] OTHER           -> [raised |-> TRUE, image |-> NoImage, posted |-> TRUE]

\* mutant: the key check of lines 147-149 is missing
generate_image_stability_NoKeyCheck(keyPresent, prompt, outcome) ==
    CASE outcome = "ok"  -> [raised |-> FALSE, image |-> PILImage(prompt), posted |-> TRUE]
      [] OTHER           -> [raised |-> FALSE, image |-> NoImage, posted |-> TRUE]

\* lines 147-191: every path returns; only the 2xx reply with a decodable
\* artifacts[0].base64 yields an image
generate_image_stability(keyPresent, prompt, outcome) ==
    CASE ~keyPresent     -> [raised |-> FALSE, image |-> NoImage, posted |-> FALSE]
      [] outcome = "ok"  -> [raised |-> FALSE, image |-> PILImage(prompt), posted |-> TRUE]
      [] OTHER           -> [raised |-> FALSE, image |-> NoImage, posted |-> TRUE]

\* the replies to explore for an opening sentence: line 243 calls the
\* backend only for a non-empty one
RepliesTo(initial_prompt) == IF initial_prompt = "" THEN {BlankReply} ELSE NarrativeReplies

\* the outcomes to explore after a narrative reply: the illustration backend
\* answers only when line 247 or 279 is reached with a key configured
OutcomesAfter(reply) ==
    IF STABILITY_API_KEY /\ reply.kind = "json" /\ "image_prompt" \in reply.keys
    THEN ImageOutcomes ELSE {"ok"}

\* what `last` keeps of the illustration call
ImageNote(keyPresent, called, outcome) ==
    IF ~called THEN "not_called"
    ELSE IF ~keyPresent THEN "no_key"
    ELSE IF outcome = "ok" THEN "ok" ELSE "failed"

\* " ".join([ch['text'] for ch in chapters]): the texts, in list order
\* mutant: the opening sentence is left out of the context
JoinTexts_SkipsOpening(chapters) == [i \in 1..(Len(chapters) - 1) |-> chapters[i + 1].text]

JoinTexts(chapters) == [i \in 1..Len(chapters) |-> chapters[i].text]

Chapter(text, image) == [text |-> text, image |-> image]

NoInteraction ==
    [op |-> "none", input |-> "", ok |-> FALSE, reply |-> BlankReply,
     image |-> "not_called", posted |-> FALSE, wb_calls |-> 0, context |-> <<>>,
     bible |-> None, at_call |-> <<>>]


Init ==
    /\ authenticated = FALSE
    /\ user = ""
    /\ rerun_trigger = FALSE
    /\ app_stage = NoKey
    /\ world_bible = None
    /\ story_chapters = <<>>
    /\ latest_choices = <<>>
    /\ GOOGLE_API_KEY \in BOOLEAN
    /\ STABILITY_API_KEY \in BOOLEAN
    /\ synthQueue = <<>>
    /\ synthPaused = FALSE
    /\ last = NoInteraction

(***************************************************************************)
(* Login (lines 54-73).  A successful login sets rerun_trigger, which the  *)
(* same run clears before st.rerun(); the rerun passes the gate and, with  *)
(* a text-generation key, creates the story keys (lines 216-220).          *)
(***************************************************************************)
Login(source, username, password) ==
    /\ ~authenticated
    /\ LET ok == check_login(source, username, password)                     \* line 61
           fresh == InitStoryKeys(app_stage, world_bible, story_chapters, latest_choices)
       IN  /\ authenticated' = IF ok THEN TRUE ELSE authenticated
           /\ user' = IF ok THEN username ELSE user
           /\ rerun_trigger' = FALSE
           /\ IF PassesLoginGate(authenticated') /\ PassesKeyCheck(GOOGLE_API_KEY)   \* lines 68, 92
              THEN /\ app_stage' = fresh[1]
                   /\ world_bible' = fresh[2]
                   /\ story_chapters' = fresh[3]
                   /\ latest_choices' = fresh[4]
              ELSE UNCHANGED storyVars
           /\ last' = [NoInteraction EXCEPT !.op = "login", !.input = username, !.ok = ok]
    /\ UNCHANGED <<envVars, synthVars>>

(***************************************************************************)
(* World forge (lines 222-234).                                            *)
(***************************************************************************)
WorldBibleResponses == WorldBibles \cup {"<raises>"}

\* lines 112-115: response.text, or the exception of the backend call
generate_world_bible(response) ==
    IF response = "<raises>" THEN [raised |-> TRUE, text |-> None]
                             ELSE [raised |-> FALSE, text |-> response]

\* mutant: the stage is advanced before the generator is called
WorldForgeRun_StageFirst(stage, wb, gen) ==
    IF gen.raised THEN <<"story_start", wb>> ELSE <<"story_start", gen.text>>

\* mutant: line 233 is missing
WorldForgeRun_KeepsStage(stage, wb, gen) ==
    IF gen.raised THEN <<stage, wb>> ELSE <<stage, gen.text>>

\* lines 232-233: <<app_stage, world_bible>> after the two assignments; an
\* exception in the call leaves the run before either
WorldForgeRun(stage, wb, gen) ==
    IF gen.raised THEN <<stage, wb>> ELSE <<"story_start", gen.text>>

world_forge_form(response) ==
    /\ ReachesStoryUI
    /\ app_stage = "world_forge"
    /\ LET gen   == generate_world_bible(response)
           after == WorldForgeRun(app_stage, world_bible, gen)
       IN  /\ app_stage' = after[1]
           /\ world_bible' = after[2]
           /\ last' = [NoInteraction EXCEPT !.op = "world", !.ok = ~gen.raised,
                                            !.wb_calls = 1, !.bible = gen.text]
    /\ UNCHANGED <<story_chapters, latest_choices, authVars, envVars, synthVars>>

(***************************************************************************)
(* Story start (lines 236-252).                                            *)
(***************************************************************************)
\* line 244
OpenStory(chapters, initial_prompt) == Append(chapters, Chapter(initial_prompt, NoImage))
\* line 248
IllustrateOpening(chapters, new_image) == [chapters EXCEPT ![1].image = new_image]
\* line 249
ContinueStory(chapters, data) == Append(chapters, Chapter(data.narrative_chapter, NoImage))

\* mutant: line 251 is executed whether or not the reply was usable
StageAfterStart_Always(stage, done) == "story_cycle"

\* line 251, reached only when lines 246-250 completed
StageAfterStart(stage, done) == IF done THEN "story_cycle" ELSE stage

start_story_form(initial_prompt, reply, outcome) ==
    /\ ReachesStoryUI
    /\ app_stage = "story_start"
    /\ Len(story_chapters) + 2 <= MaxChapters
    /\ LET submitted   == initial_prompt # ""                                   \* line 243
           opened      == OpenStory(story_chapters, initial_prompt)
           call        == generate_story_chapter(reply)                         \* line 245
           data        == call.data
           proceeds    == submitted /\ ~call.raised /\ Truthy(data)             \* line 246
           imgCalled   == proceeds /\ HasKey(data, "image_prompt")              \* line 247
           img         == generate_image_stability(STABILITY_API_KEY, data.image_prompt, outcome)
           painted     == imgCalled /\ ~img.raised
           illustrated == IllustrateOpening(opened, img.image)
           hasText     == painted /\ HasKey(data, "narrative_chapter")
           continued   == ContinueStory(illustrated, data)
           done        == hasText /\ HasKey(data, "next_choices")               \* line 250
       IN  /\ story_chapters' = IF ~submitted THEN story_chapters
                                ELSE IF ~painted THEN opened
                                ELSE IF ~hasText THEN illustrated
                                ELSE continued
           /\ latest_choices' = IF done THEN data.next_choices ELSE latest_choices
           /\ app_stage' = StageAfterStart(app_stage, done)
           /\ last' = [op |-> "start", input |-> initial_prompt, ok |-> done,
                       reply |-> reply,
                       image |-> ImageNote(STABILITY_API_KEY, imgCalled, outcome),
                       posted |-> imgCalled /\ img.posted,
                       wb_calls |-> 0, context |-> <<>>,
                       bible |-> IF submitted THEN world_bible ELSE None,
                       at_call |-> IF submitted THEN opened ELSE <<>>]
    /\ UNCHANGED <<world_bible, authVars, envVars, synthVars>>

(***************************************************************************)
(* Story cycle: the choice form (lines 271-283).                           *)
(***************************************************************************)
\* mutant: the radio keeps offering the first list of choices it was shown
radio_Stale(options, index) == <<"A", "B">>[index]

\* mutant: the new chapter overwrites the latest one
AppendChapter_Overwrites(chapters, data, new_image) ==
    [chapters EXCEPT ![Len(chapters)] = [text |-> data.narrative_chapter, image |-> new_image]]

\* mutant: the newest chapter is shown first
AppendChapter_Prepends(chapters, data, new_image) ==
    <<Chapter(data.narrative_chapter, new_image)>> \o chapters

\* line 273: st.radio returns the selected one of the options it was given
radio(options, index) == options[index]
\* lines 280-281
AppendChapter(chapters, data, new_image) ==
    Append(chapters, Chapter(data.narrative_chapter, new_image))

choice_form(index, reply, outcome) ==
    /\ ReachesStoryUI
    /\ app_stage = "story_cycle"
    /\ latest_choices # <<>>                                                    \* line 271
    /\ index \in 1..Len(latest_choices)
    /\ Len(story_chapters) + 1 <= MaxChapters
    /\ LET choice_made  == radio(latest_choices, index)
           story_so_far == JoinTexts(story_chapters)                            \* line 275
           call         == generate_story_chapter(reply)                        \* line 276
           data         == call.data
           proceeds     == ~call.raised /\ Truthy(data)                         \* line 278
           imgCalled    == proceeds /\ HasKey(data, "image_prompt")             \* line 279
           img          == generate_image_stability(STABILITY_API_KEY, data.image_prompt, outcome)
           built        == imgCalled /\ ~img.raised /\ HasKey(data, "narrative_chapter")
           done         == built /\ HasKey(data, "next_choices")                \* line 282
       IN  /\ story_chapters' = IF built THEN AppendChapter(story_chapters, data, img.image)
                                ELSE story_chapters
           /\ latest_choices' = IF done THEN data.next_choices ELSE latest_choices
           /\ last' = [op |-> "choice", input |-> choice_made, ok |-> done, reply |-> reply,
                       image |-> ImageNote(STABILITY_API_KEY, imgCalled, outcome),
                       posted |-> imgCalled /\ img.posted,
                       wb_calls |-> 0, context |-> story_so_far, bible |-> world_bible,
                       at_call |-> story_chapters]
    /\ UNCHANGED <<app_stage, world_bible, authVars, envVars, synthVars>>

(***************************************************************************)
(* Restart (lines 285-292): the keys are deleted and the rerun recreates   *)
(* them (lines 216-220).                                                   *)
(***************************************************************************)
\* mutant: 'app_stage' is missing from keys_to_clear
ClearKeys_KeepsStage(stage, wb, chapters, choices) == <<stage, None, <<>>, <<>>>>

\* lines 288-291: the four keys after the deletions
ClearKeys(stage, wb, chapters, choices) == <<NoKey, None, <<>>, <<>>>>

\* mutant: the handler clears the whole of st.session_state, and lines 48-49
\* of the rerun set authenticated again
LoginKeysAfterClear_All(auth, usr) == <<FALSE, "">>

\* lines 288-291: keys_to_clear names neither 'authenticated' nor 'user'
LoginKeysAfterClear(auth, usr) == <<auth, usr>>

Restart ==
    /\ ReachesStoryUI
    /\ app_stage \notin {NoKey, "world_forge"}                                  \* line 286
    /\ LET cleared == ClearKeys(app_stage, world_bible, story_chapters, latest_choices)
           login   == LoginKeysAfterClear(authenticated, user)
           fresh   == InitStoryKeys(cleared[1], cleared[2], cleared[3], cleared[4])
           \* the rerun of line 292 passes lines 54-96 before it reaches line 216
           after   == IF PassesLoginGate(login[1]) /\ PassesKeyCheck(GOOGLE_API_KEY)
                      THEN fresh ELSE cleared
       IN  /\ authenticated' = login[1]
           /\ user' = login[2]
           /\ app_stage' = after[1]
           /\ world_bible' = after[2]
           /\ story_chapters' = after[3]
           /\ latest_choices' = after[4]
    /\ last' = [NoInteraction EXCEPT !.op = "restart"]
    /\ UNCHANGED <<rerun_trigger, envVars, synthVars>>

(***************************************************************************)
(* Narration (lines 194-206 and 262-267).                                  *)
(***************************************************************************)
\* line 196, on the joined texts: quotes are escaped for the script literal
\* and read back by it; a newline becomes a space
SafeText(texts) == [i \in 1..Len(texts) |-> IF texts[i] = "t|1" THEN "t 1" ELSE texts[i]]

\* mutant: line 200 is missing
text_to_speech_player_NoCancel(queue, text) == Append(queue, SafeText(text))

\* lines 199-204: synth.speaking holds while an utterance is queued
text_to_speech_player(queue, text) ==
    LET afterCancel == IF queue # <<>> THEN <<>> ELSE queue
    IN  Append(afterCancel, SafeText(text))

\* mutant: the buttons are rendered inside the `if latest_choices:` block
NarrationOffered_WithChoices ==
    ReachesStoryUI /\ app_stage = "story_cycle" /\ story_chapters # <<>> /\ latest_choices # <<>>

NarrationOffered ==
    ReachesStoryUI /\ app_stage = "story_cycle" /\ story_chapters # <<>>        \* lines 254, 262

Narrate ==
    /\ NarrationOffered
    /\ synthQueue' = text_to_speech_player(synthQueue, JoinTexts(story_chapters))
    /\ last' = [NoInteraction EXCEPT !.op = "narrate"]
    /\ UNCHANGED <<synthPaused, storyVars, authVars, envVars>>

Pause ==
    /\ NarrationOffered
    /\ synthPaused' = TRUE
    /\ last' = [NoInteraction EXCEPT !.op = "pause"]
    /\ UNCHANGED <<synthQueue, storyVars, authVars, envVars>>

Stop ==
    /\ NarrationOffered
    /\ synthQueue' = <<>>
    /\ last' = [NoInteraction EXCEPT !.op = "stop"]
    /\ UNCHANGED <<synthPaused, storyVars, authVars, envVars>>

\* the browser finishes speaking the utterance at the head of the queue
UtteranceEnds ==
    /\ synthQueue # <<>>
    /\ ~synthPaused
    /\ synthQueue' = Tail(synthQueue)
    /\ last' = [NoInteraction EXCEPT !.op = "utterance_ends"]
    /\ UNCHANGED <<synthPaused, storyVars, authVars, envVars>>

\* the submissions, over the inputs and the backend behaviours
SubmitWorld == \E r \in WorldBibleResponses : world_forge_form(r)
SubmitOpening ==
    \E o \in OpeningInputs : \E r \in RepliesTo(o) : \E x \in OutcomesAfter(r) :
        start_story_form(o, r, x)
SubmitChoice ==
    \E i \in ChoiceIndexes, r \in NarrativeReplies : \E x \in OutcomesAfter(r) :
        choice_form(i, r, x)

Next ==
    \/ \E s \in AuthSources, u \in Usernames, p \in Passwords : Login(s, u, p)
    \/ SubmitWorld
    \/ SubmitOpening
    \/ SubmitChoice
    \/ Restart
    \/ Narrate
    \/ Pause
    \/ Stop
    \/ UtteranceEnds

Spec == Init /\ [][Next]_vars

(***************************************************************************)
(* Properties.  `last` names the interaction a step performed, so a        *)
(* property of one handler is an action property over the steps whose      *)
(* last'.op is that handler.                                               *)
(***************************************************************************)
Submitted(l) == l.op \in {"start", "choice"} /\ l.reply.kind # "not_called"
\* generate_story_chapter returned None or raised
NarrativeFailed(l) == Submitted(l) /\ l.reply.kind \in {"backend_error", "garbled"}
NarrativeOk(l) == Submitted(l) /\ l.reply.kind = "json" /\ l.reply.keys = JsonKeys
\* the image the illustration call of the step returned
ImageResult(l) == IF l.image = "ok" THEN [present |-> TRUE, of |-> l.reply.image_prompt]
                  ELSE [present |-> FALSE, of |-> ""]
Texts(chapters) == [i \in 1..Len(chapters) |-> chapters[i].text]

\* C1: a StoryStart or StoryCycle submission whose narrative call fails
\* leaves chapters and pendingChoices as they were before the submission.
C1_FailedNarrativeChangesNothing ==
    [][NarrativeFailed(last') =>
          story_chapters' = story_chapters /\ latest_choices' = latest_choices]_vars

\* C2: after a successful StoryStart submission chapters is exactly
\* <<opening with the illustration, continuation without one>>, pendingChoices
\* is the returned list and the stage is StoryCycle, whatever came before.
C2_StartYieldsTwoChapters ==
    (last.op = "start" /\ NarrativeOk(last)) =>
        /\ story_chapters = <<[text |-> last.input, image |-> ImageResult(last)],
                              [text |-> last.reply.narrative_chapter,
                               image |-> [present |-> FALSE, of |-> ""]]>>
        /\ latest_choices = last.reply.next_choices
        /\ app_stage = "story_cycle"

\* C3: a successful StoryCycle submission lengthens chapters by exactly one
\* and a successful StoryStart submission by exactly two.
C3_LengthGrowth ==
    [][/\ (last'.op = "choice" /\ NarrativeOk(last')) =>
              Len(story_chapters') = Len(story_chapters) + 1
       /\ (last'.op = "start" /\ NarrativeOk(last')) =>
              Len(story_chapters') = Len(story_chapters) + 2]_vars
C3_Witness ==
    /\ last.op = "choice" /\ NarrativeOk(last)
    /\ Len(story_chapters) = 3

\* C4: when the narrative call succeeds, the illustration call's failure (no
\* key, or any failing outcome) changes nothing but the image: the chapter
\* is appended and pendingChoices replaced as on success, with no image.
C4_IllustrationFailureDegrades ==
    [][(NarrativeOk(last') /\ last'.image \in {"no_key", "failed"}) =>
          /\ latest_choices' = last'.reply.next_choices
          /\ last'.op = "choice" =>
                story_chapters' = Append(story_chapters,
                                         [text |-> last'.reply.narrative_chapter,
                                          image |-> [present |-> FALSE, of |-> ""]])
          /\ last'.op = "start" =>
                /\ Texts(story_chapters') =
                       Texts(story_chapters) \o <<last'.input, last'.reply.narrative_chapter>>
                /\ \A i \in 1..Len(story_chapters') :
                       story_chapters'[i].image =
                           IF 1 < i /\ i <= Len(story_chapters)
                           THEN story_chapters[i].image
                           ELSE [present |-> FALSE, of |-> ""]
                /\ app_stage' = "story_cycle"]_vars
C4_Witness ==
    /\ last.op = "choice" /\ NarrativeOk(last) /\ last.image = "failed"
    /\ ~story_chapters[Len(story_chapters)].image.present

\* C5 (as amended): restart is offered in StoryStart and StoryCycle, and
\* leaves stage = WorldForge, no world bible, no chapters and no choices.
C5_RestartResets ==
    /\ (ReachesStoryUI /\ app_stage \in {"story_start", "story_cycle"}) => ENABLED Restart
    /\ last.op = "restart" =>
          /\ app_stage = "world_forge"
          /\ world_bible = None
          /\ story_chapters = <<>>
          /\ latest_choices = <<>>
C5_Witness == last.op = "restart" /\ app_stage = "world_forge" /\ synthQueue # <<>>
\* C5 as stated: restart can be issued from any stage, WorldForge included.
C5_RestartFromAnyStage ==
    /\ (ReachesStoryUI /\ app_stage \in {"world_forge", "story_start", "story_cycle"})
          => ENABLED Restart
    /\ last.op = "restart" =>
          /\ app_stage = "world_forge"
          /\ world_bible = None
          /\ story_chapters = <<>>
          /\ latest_choices = <<>>

\* C6: every choice submission, hence every narrative call from StoryCycle,
\* carries a choice that is a member of pendingChoices as it stands at the
\* submission; with no pending choice there is no submission.
C6_ChoiceIsPending ==
    [][last'.op = "choice" =>
          /\ latest_choices # <<>>
          /\ \E i \in 1..Len(latest_choices) : latest_choices[i] = last'.input]_vars
C6_Witness == last.op = "choice" /\ last.input = "B" /\ last.reply.kind = "json"

\* C7: the world bible is absent only in WorldForge; in StoryStart and
\* StoryCycle it is a text the world-bible generator produced.
C7_BiblePresentAfterForge ==
    /\ app_stage \in {"story_start", "story_cycle"} => world_bible \in WorldBibles
    /\ world_bible = None => app_stage \in {NoKey, "world_forge"}
C7_Witness == app_stage = "story_cycle" /\ world_bible = "wb2" /\ Len(story_chapters) = 3

\* C8 (as amended): a WorldForge submission issues exactly one generation
\* call and, when the call returns, stores its text and moves the stage to
\* StoryStart; outside WorldForge no step but restart issues such a call or
\* changes worldBible, and every narrative call receives that worldBible.
C8_BibleGeneratedOnce ==
    [][/\ last'.op = "world" =>
              /\ app_stage = "world_forge"
              /\ last'.wb_calls = 1
              /\ last'.ok => (app_stage' = "story_start" /\ world_bible' = last'.bible)
       /\ (app_stage \in {"story_start", "story_cycle"} /\ last'.op # "restart") =>
              (world_bible' = world_bible /\ last'.wb_calls = 0)
       /\ Submitted(last') => (last'.bible = world_bible /\ last'.bible = world_bible')]_vars
C8_Witness ==
    /\ last.op = "choice" /\ NarrativeOk(last)
    /\ last.bible = "wb1" /\ world_bible = "wb1"
\* C8 as stated: every WorldForge submission moves the stage to StoryStart.
C8_EveryWorldSubmissionAdvances ==
    last.op = "world" => (last.wb_calls = 1 /\ app_stage = "story_start")

\* C9: while the session is unauthenticated there are no story keys, no
\* story interaction has happened and no backend was called; authenticated
\* becomes true only in a login step whose check_login returned true.
C9_Unauthenticated ==
    /\ [](~authenticated =>
            /\ app_stage = NoKey /\ world_bible = None
            /\ story_chapters = <<>> /\ latest_choices = <<>>
            /\ last.op \in {"none", "login"}
            /\ last.reply.kind = "not_called" /\ last.wb_calls = 0 /\ ~last.posted)
    /\ [][(~authenticated /\ authenticated') => (last'.op = "login" /\ last'.ok)]_vars
C9_Witness == authenticated /\ last.op = "login" /\ last.ok /\ app_stage = "world_forge"

\* C10: with no image key, no chapter ever has an illustration, the image
\* backend is never posted to, and a successful narrative call still appends
\* its chapter and replaces pendingChoices.
C10_NoImageKey ==
    /\ [](~STABILITY_API_KEY =>
            /\ \A i \in 1..Len(story_chapters) : ~story_chapters[i].image.present
            /\ ~last.posted)
    /\ [][(~STABILITY_API_KEY /\ NarrativeOk(last')) =>
            /\ latest_choices' = last'.reply.next_choices
            /\ Texts(story_chapters') = Texts(story_chapters) \o
                   (IF last'.op = "start"
                    THEN <<last'.input, last'.reply.narrative_chapter>>
                    ELSE <<last'.reply.narrative_chapter>>)]_vars
C10_Witness ==
    /\ ~STABILITY_API_KEY
    /\ last.op = "choice" /\ NarrativeOk(last) /\ last.image = "no_key"
    /\ Len(story_chapters) = 3

\* C11 (as amended): narrate, pause and stop are enabled exactly in stage
\* StoryCycle of an authenticated session (where chapters is never empty),
\* whatever the outcome of the submissions before, also with no pending choice.
C11_NarrationInStoryCycle ==
    /\ (ReachesStoryUI /\ app_stage = "story_cycle") =>
          (story_chapters # <<>> /\ ENABLED Narrate /\ ENABLED Pause /\ ENABLED Stop)
    /\ (ENABLED Narrate \/ ENABLED Pause \/ ENABLED Stop) =>
          (authenticated /\ app_stage = "story_cycle")
C11_Witness == last.op = "narrate" /\ latest_choices = <<>> /\ synthQueue # <<>>
\* C11 as stated: the three are enabled in every stage of an authenticated session.
C11_NarrationInEveryStage ==
    (ReachesStoryUI /\ app_stage \in {"world_forge", "story_start", "story_cycle"}) =>
        (ENABLED Narrate /\ ENABLED Pause /\ ENABLED Stop)

\* the text of a chapter as the synthesizer receives it: line breaks are spaces
Spoken(text) == IF text = "t|1" THEN "t 1" ELSE text

C13_AllOrNothing ==
    [][Submitted(last') =>
          \/ /\ story_chapters' = story_chapters
             /\ latest_choices' = latest_choices
             /\ app_stage' = app_stage
             /\ world_bible' = world_bible
          \/ /\ NarrativeOk(last')
             /\ app_stage' = "story_cycle"
             /\ Len(story_chapters') > Len(story_chapters)
             /\ story_chapters'[Len(story_chapters')].text = last'.reply.narrative_chapter
             /\ latest_choices' = last'.reply.next_choices]_vars

\* C14: pendingChoices is empty only if chapters is empty, and each successful
\* chapter generation replaces pendingChoices by exactly the returned choices.
C14_ChoicesPendingOnceStarted ==
    /\ [](story_chapters # <<>> => latest_choices # <<>>)
    /\ [][NarrativeOk(last') => latest_choices' = last'.reply.next_choices]_vars

\* C15: in every step other than restart the sequence of chapter texts before
\* the step is a prefix of the sequence after it: no chapter is removed,
\* reordered or has its text changed.
C15_ChaptersAppendOnly ==
    [][last'.op # "restart" =>
          /\ Len(story_chapters) <= Len(story_chapters')
          /\ \A i \in 1..Len(story_chapters) :
                story_chapters'[i].text = story_chapters[i].text]_vars
C15_Witness ==
    /\ last.op = "start" /\ NarrativeOk(last)
    /\ Len(story_chapters) = 3 /\ story_chapters[1].image.present

\* C16: the context a StoryCycle submission passes to the narrative generator
\* holds the text of every chapter present at the submission, once each and
\* in insertion order, and goes with the session's worldBible and the
\* selected choice.
C16_ContextIsWholeStory ==
    [][last'.op = "choice" =>
          /\ Len(last'.context) = Len(story_chapters)
          /\ \A i \in 1..Len(story_chapters) : last'.context[i] = story_chapters[i].text
          /\ last'.bible = world_bible
          /\ \E i \in 1..Len(latest_choices) : last'.input = latest_choices[i]]_vars
C16_Witness ==
    /\ last.op = "choice" /\ last.context = <<"o1", "t|1">>
    /\ last.bible = "wb2" /\ last.input = "C"

\* C17: the stage changes only from WorldForge to StoryStart on a world
\* submission, from StoryStart to StoryCycle on a successful opening
\* submission and to WorldForge on restart (and on the first run after login,
\* which creates it); a failed opening submission leaves StoryStart, every
\* choice submission leaves StoryCycle, and a form is enabled only in its stage.
C17_StageTransitions ==
    /\ [][app_stage' # app_stage =>
            \/ app_stage = NoKey /\ app_stage' = "world_forge" /\ last'.op = "login"
            \/ app_stage = "world_forge" /\ app_stage' = "story_start" /\ last'.op = "world"
            \/ /\ app_stage = "story_start" /\ app_stage' = "story_cycle"
               /\ last'.op = "start" /\ NarrativeOk(last')
            \/ app_stage' = "world_forge" /\ last'.op = "restart"]_vars
    /\ [][(last'.op = "start" /\ ~NarrativeOk(last')) =>
            (app_stage = "story_start" /\ app_stage' = "story_start")]_vars
    /\ [][last'.op = "choice" =>
            (app_stage = "story_cycle" /\ app_stage' = "story_cycle")]_vars
    /\ [](/\ ENABLED SubmitWorld => app_stage = "world_forge"
          /\ ENABLED SubmitOpening => app_stage = "story_start"
          /\ ENABLED SubmitChoice => app_stage = "story_cycle")
C17_Witness ==
    /\ last.op = "start" /\ NarrativeFailed(last) /\ app_stage = "story_start"
    /\ ENABLED SubmitOpening /\ ~ENABLED SubmitChoice

\* C18: within a submission the narrative call comes first, then at most one
\* illustration call, then the state changes: chapters at the narrative call
\* is chapters before the submission, and a failed narrative call is followed
\* by no illustration call.
C18_PipelineOrder ==
    [][Submitted(last') =>
          /\ last'.at_call = story_chapters
          /\ NarrativeFailed(last') => (last'.image = "not_called" /\ ~last'.posted)
          /\ last'.image # "not_called" => last'.reply.kind = "json"]_vars

\* C19: a WorldForge submission whose generation call raises leaves the
\* session in WorldForge with no world bible, no chapters and no pending
\* choices, and the world form can be submitted again.
C19_FailedForgeStays ==
    (last.op = "world" /\ ~last.ok) =>
        /\ app_stage = "world_forge" /\ world_bible = None
        /\ story_chapters = <<>> /\ latest_choices = <<>>
        /\ ENABLED SubmitWorld
C19_Witness == last.op = "world" /\ ~last.ok /\ app_stage = "world_forge"

\* C20: restart leaves the login keys as they were, and no step of an
\* authenticated session makes it unauthenticated or changes its user.
C20_RestartKeepsLogin ==
    [][/\ last'.op = "restart" =>
            (authenticated' = authenticated /\ user' = user /\ rerun_trigger' = rerun_trigger)
       /\ authenticated => (authenticated' /\ user' = user)]_vars
C20_Witness ==
    /\ last.op = "restart" /\ authenticated /\ user = "alice"
    /\ app_stage = "world_forge" /\ world_bible = None
====
